---- MODULE Spec2Model ----
(***************************************************************************)
(* State-machine model of the video automation pipeline.                   *)
(*                                                                         *)
(*   prog = "main"   : main.py main() driving NotionVideoProcessor         *)
(*   prog = "notion" : NotionVideoProcessor built and run by a caller of   *)
(*                     the package (src/__init__.py exports the class)     *)
(*   prog = "ptask"  : process_task.py, VideoProcessor() then process()    *)
(*   prog = "ids"    : the task-id generators applied to two sets of inputs*)
(*   prog = "vproc"  : two concurrent process() calls on one                *)
(*                     video_processor.VideoProcessor (asyncio)             *)
(*                                                                         *)
(* Status strings of the source are written in ASCII:                      *)
(*   "in_progress" = NotionTask.status default (notion_video_processor:38) *)
(*   "completed"   = status set at notion_video_processor.py:420           *)
(*   "partial"     = status set at notion_video_processor.py:423           *)
(*   "failed"      = status set at notion_video_processor.py:431           *)
(***************************************************************************)
EXTENDS Integers, Sequences, FiniteSets, TLC

VARIABLES
  prog,          \* which entry point runs
  env,           \* environment variables, as the facts the code reads from them
                 \* (tolerant: the "skip failed downloads" option is set; no
                 \* statement of the source reads it)
  pc,            \* position of the running program
  dir_on_disk,   \* the temporary directory exists in the filesystem
  temp_dir,      \* the attribute self.temp_dir has been assigned
  exc,           \* exception in flight ("none" when there is none)
  r2_enabled,    \* NotionVideoProcessor.r2_enabled
  notion_enabled,\* NotionVideoProcessor.notion_enabled
  thumb_path,    \* the download produced a thumbnail file
  task,          \* NotionTask record
  result,        \* value returned by NotionVideoProcessor.process()
  notion_requests, \* PATCH requests issued to the Notion API, in order
  ai_content,    \* process_task.VideoProcessor.ai_content
  webhooks,      \* webhook POSTs issued by process_task, in order
  exit_code,     \* process exit code, NoExit while running
  obs,           \* outcome of each external call made so far (in the
                 \* current call of process())
  trace,         \* side-effecting calls made so far, in order (in the
                 \* current call of process())
  recalls,       \* further calls of process() on the same processor so far
  r2_keys,       \* keys of the upload_file calls made (in the current call)
  ids,           \* prog = "ids": two sets of inputs and the ids made of them
  vp,            \* prog = "vproc": one video_processor.VideoProcessor and the
                 \* two process() coroutines running on it
  ai_item_len    \* length of each string in the title and tag lists of the
                 \* language-model answer the task record holds

vars == <<prog, env, pc, dir_on_disk, temp_dir, exc, r2_enabled, notion_enabled,
          thumb_path, task, result, notion_requests, ai_content, webhooks,
          exit_code, obs, trace, recalls, r2_keys, ids, vp, ai_item_len>>

----------------------------------------------------------------------------
(* Bounds of the model *)

MaxNameLen == 24      \* task names have 1..MaxNameLen characters
MaxErrorLen == 600    \* the text of an OSError has 1..MaxErrorLen characters
MaxRecalls == 1       \* a caller calls process() up to MaxRecalls further times
Excess == 1           \* a language-model answer exceeds a limit by up to Excess items
MaxItemLen == 500     \* a title or tag of the answer has 1..MaxItemLen characters

(* Constants of the program *)

SetupAttempts == 3    \* stop_after_attempt(3) on _setup_clients
MaxTitles == 5        \* [:5]
MaxSummary == 500     \* [:500]
MaxTags == 10         \* [:10]
TitleLimit == 30      \* len(str(title)) > 30
FallbackAffixLen == 7 \* len(" - 精彩內容") = len("必看！") + len("重點整理") = 7
NominalTitleLen == 15 \* "15字內吸睛標題" asked for in the prompt
DownloadFailedLen == 8 \* len("影片下載階段失敗")
UploadFailedLen == 9  \* len("R2 上傳階段失敗")

NoExit == -1
NoSummary == -1       \* ai_content_summary is None

Programs == {"main", "notion", "ptask", "ids", "vproc"}

----------------------------------------------------------------------------
(* Values *)

NoUrl == [scheme |-> "none", of |-> "none"]
OriginalLink == [scheme |-> IF env.linkHttp THEN "https" ELSE "ftp", of |-> "source"]

\* f"local://{local_path}"
LocalUrl(file) == [scheme |-> "local", of |-> file]
\* f"upload_failed://{local_path}"
UploadFailedUrl(file) == [scheme |-> "upload_failed", of |-> file]
\* f"https://{r2_public_domain}/{r2_key}" or f"https://pub-{account}.r2.dev/{r2_key}"
R2Url(file) == [scheme |-> "https", of |-> file]

\* variant of StartsWithHttp: any value that is set passes
StartsWithHttp_AnySet(u) == u.scheme # "none"

\* str.startswith('http')
StartsWithHttp(u) == u.scheme \in {"http", "https"}

\* Strings that are concatenated are sequences of parts: "a", "b" are
\* letters, "h" is the text "http://", "_" the underscore.
TaskNames == {<<"a">>, <<"a", "h">>}
Links == {<<"h", "b">>, <<"h", "h", "b">>}
Timestamps == {"t0", "t1"} \* datetime.now() formatted down to the second

\* hashlib.md5(s.encode()).hexdigest()[:n], taken to be free of collisions:
\* the digests of two texts are equal exactly when the texts are
MD5(text) == [md5_of |-> text]

\* NotionTask.__post_init__: timestamp = now.strftime("%Y%m%d_%H%M%S"),
\* hash_input = f"{original_link}_{timestamp}",
\* task_id = f"task_{timestamp}_{hash_suffix}"
NotionTaskId(task_name, original_link, now) ==
  [prefix |-> "task", timestamp |-> now,
   hash_suffix |-> MD5(original_link \o <<"_", now>>)]

\* video_processor.VideoProcessor._generate_task_id(task_name, video_url):
\* md5 of f"{task_name}{video_url}{timestamp}"
generate_task_id(task_name, video_url, now) ==
  MD5(task_name \o video_url \o <<now>>)

\* the inputs of the one task a NotionVideoProcessor is built for
TaskName == <<"a">>
LinkText == <<"h", "b">>
ConstructionTime == "t0"
Unassigned == [prefix |-> "none"]

\* storage key f"{file_type}/{timestamp_path}/{self.task.task_id}{file_ext}"
\* variant of R2Key: the key is named after the time of the upload
R2Key_NamedAtUpload(file_type, task_id) ==
  [file_type |-> file_type,
   task_id |-> NotionTaskId(TaskName, LinkText, "t1")]

\* storage key f"{file_type}/{timestamp_path}/{self.task.task_id}{file_ext}"
R2Key(file_type, task_id) == [file_type |-> file_type, task_id |-> task_id]

NoIds == [a |-> << >>, b |-> << >>, notion |-> << >>, video |-> << >>]

Tasks == {1, 2}            \* the two process() calls on the one instance
NoTask == 0                \* an attribute of the instance that is not set

\* one VideoProcessor before process() is called: the attributes temp_dir
\* and task_id of the instance, and for each call its position, whether the
\* directory it made exists and holds a video file, the directory in which
\* it found its video, the task id in its storage key, how its upload and
\* the call ended; same_name: the two task names sanitize to the same name
InitialVP(same, r2) ==
  [same_name |-> same, r2_enabled |-> r2,
   temp_dir |-> NoTask, task_id |-> NoTask,
   pc |-> [i \in Tasks |-> "start"],
   dirs |-> [i \in Tasks |-> FALSE],
   files |-> [i \in Tasks |-> FALSE],
   found |-> [i \in Tasks |-> NoTask],
   key |-> [i \in Tasks |-> NoTask],
   upload |-> [i \in Tasks |-> "none"],
   ret |-> [i \in Tasks |-> "none"],
   rmtree_failed |-> FALSE]

NoContent ==
  [keys |-> FALSE, titles |-> << >>, tags |-> << >>, joinable |-> TRUE,
   source |-> "none"]
NoResult == [status |-> "none"]

InitialTask ==
  [status |-> "in_progress",
   processed_video_url |-> NoUrl,
   processed_thumbnail_url |-> NoUrl,
   ai_title_suggestions |-> 0,
   ai_content_summary |-> NoSummary,
   ai_tag_suggestions |-> 0,
   task_id |-> Unassigned,
   error_message |-> "None"]

InitialObs ==
  [download |-> "none", upload_video |-> "none", upload_thumb |-> "none",
   ai |-> "none", llm_calls |-> 0, notion |-> "none", rmtree |-> "none",
   setup_failures |-> 0, swallowed |-> "none", webhook |-> "none",
   error_len |-> 0]

Min(a, b) == IF a < b THEN a ELSE b

----------------------------------------------------------------------------
(* Python exception handling *)

\* "except Exception" does not catch SystemExit (raised by sys.exit in the
\* signal handler), which derives from BaseException only
CaughtByExceptException(e) == e \notin {"none", "SystemExit"}

----------------------------------------------------------------------------
Init ==
  /\ prog \in Programs
  /\ env \in [core: BOOLEAN, openai: BOOLEAN, r2: BOOLEAN, notion: BOOLEAN,
              linkHttp: BOOLEAN, webhook: BOOLEAN, test_mode: BOOLEAN,
              tolerant: BOOLEAN, nameLen: 1..MaxNameLen]
  \* variables a program never reads are left at one value
  /\ prog \in {"ids", "vproc"} =>
       env = [core |-> FALSE, openai |-> FALSE, r2 |-> FALSE,
                   notion |-> FALSE, linkHttp |-> TRUE,
                   webhook |-> FALSE, test_mode |-> FALSE,
                   tolerant |-> FALSE, nameLen |-> 1]
  /\ prog # "ptask" => /\ ~env.webhook
                       /\ ~env.test_mode
                       /\ env.nameLen = 1
  /\ prog = "ptask" => /\ ~env.notion
                       /\ env.linkHttp
  /\ pc = CASE prog = "main" -> "main_start"
            [] prog = "notion" -> "init"
            [] prog = "ptask" -> "pt_init"
            [] prog = "ids" -> "ids"
            [] prog = "vproc" -> "vproc"
  /\ dir_on_disk = FALSE
  /\ temp_dir = FALSE
  /\ exc = "none"
  /\ r2_enabled = FALSE
  /\ notion_enabled = FALSE
  /\ thumb_path = FALSE
  /\ task = InitialTask
  /\ result = NoResult
  /\ notion_requests = << >>
  /\ ai_content = NoContent
  /\ webhooks = << >>
  /\ exit_code = NoExit
  /\ obs = InitialObs
  /\ trace = << >>
  /\ recalls = 0
  /\ r2_keys = << >>
  /\ ai_item_len = 0
  /\ IF prog = "ids"
       THEN \E na, nb \in TaskNames, la, lb \in Links, ta, tb \in Timestamps:
              ids = [NoIds EXCEPT !.a = <<na, la, ta>>, !.b = <<nb, lb, tb>>]
       ELSE ids = NoIds
  /\ IF prog = "vproc"
       THEN \E same \in BOOLEAN, r2 \in BOOLEAN: vp = InitialVP(same, r2)
       ELSE vp = InitialVP(FALSE, FALSE)

----------------------------------------------------------------------------
(* main.py *)

Exit(code) ==
  /\ exit_code' = code
  /\ pc' = "exited"

\* check_dependencies(): False when a required package cannot be imported
MainCheckDependencies ==
  /\ pc = "main_start"
  /\ \E installed \in BOOLEAN:
       IF installed
         THEN pc' = "main_validate" /\ UNCHANGED exit_code
         ELSE Exit(1)
  /\ UNCHANGED <<ai_item_len, recalls, r2_keys, ids, vp, prog, env, dir_on_disk, temp_dir, exc, r2_enabled,
                 notion_enabled, thumb_path, task, result, notion_requests,
                 ai_content, webhooks, obs, trace>>

\* validate_environment(): is_valid = no errors; the errors are a missing core
\* variable (the five task variables and OPENAI_API_KEY) and an ORIGINAL_LINK
\* that does not start with http:// or https://
validate_environment == env.core /\ env.openai /\ env.linkHttp

MainValidate ==
  /\ pc = "main_validate"
  /\ IF validate_environment
       THEN pc' = "main_import" /\ UNCHANGED exit_code
       ELSE Exit(1)
  /\ UNCHANGED <<ai_item_len, recalls, r2_keys, ids, vp, prog, env, dir_on_disk, temp_dir, exc, r2_enabled,
                 notion_enabled, thumb_path, task, result, notion_requests,
                 ai_content, webhooks, obs, trace>>

\* from src.notion_video_processor import NotionVideoProcessor
MainImport ==
  /\ pc = "main_import"
  /\ \E loaded \in BOOLEAN:
       IF loaded
         THEN pc' = "init" /\ UNCHANGED exit_code
         ELSE Exit(1)
  /\ UNCHANGED <<ai_item_len, recalls, r2_keys, ids, vp, prog, env, dir_on_disk, temp_dir, exc, r2_enabled,
                 notion_enabled, thumb_path, task, result, notion_requests,
                 ai_content, webhooks, obs, trace>>

\* "except Exception" around NotionVideoProcessor() in main(): return 1
MainConstructFailed ==
  /\ prog = "main"
  /\ pc = "init_failed"
  /\ Exit(1)
  /\ exc' = "none"
  /\ UNCHANGED <<ai_item_len, recalls, r2_keys, ids, vp, prog, env, dir_on_disk, temp_dir, r2_enabled,
                 notion_enabled, thumb_path, task, result, notion_requests,
                 ai_content, webhooks, obs, trace>>

\* signal_handler(signum, frame), installed by main() for SIGINT and SIGTERM:
\* sys.exit(130).  Here the signal arrives while main() itself is running,
\* where no clause catches the SystemExit; a signal that arrives inside a
\* stage of process() is the outcome "signal" of that stage.
signal_handler ==
  /\ prog = "main"
  /\ pc \in {"main_start", "main_validate", "main_import", "returned"}
  /\ Exit(130)
  /\ UNCHANGED <<ai_item_len, recalls, r2_keys, ids, vp, prog, env, dir_on_disk, temp_dir, exc, r2_enabled,
                 notion_enabled, thumb_path, task, result, notion_requests,
                 ai_content, webhooks, obs, trace>>

\* exit code chosen from result['status'] in main()
ExitCodeOf(status) ==
  CASE status = "completed" -> 0
    [] status = "partial" -> 2
    [] status = "failed" -> 1
    [] OTHER -> 3

MainAnalyze ==
  /\ prog = "main"
  /\ pc = "returned"
  /\ Exit(ExitCodeOf(result.status))
  /\ UNCHANGED <<ai_item_len, recalls, r2_keys, ids, vp, prog, env, dir_on_disk, temp_dir, exc, r2_enabled,
                 notion_enabled, thumb_path, task, result, notion_requests,
                 ai_content, webhooks, obs, trace>>

----------------------------------------------------------------------------
(* src/notion_video_processor.py *)

\* where control goes when a statement of the try block of process() ends
\* with exception e ("none": it returned): the except clause, or straight
\* to the finally clause for what "except Exception" does not catch
AfterStage(e, next) ==
  IF e = "none" THEN next
  ELSE IF CaughtByExceptException(e) THEN "except"
  ELSE "finally"

\* self.task = NotionTask(...) in _setup_task_from_env: the id is made
\* in __post_init__
NewTask ==
  [task EXCEPT !.task_id = NotionTaskId(TaskName, LinkText, ConstructionTime)]

\* __init__: mkdtemp, then _setup_task_from_env, then _setup_clients under
\* @retry(stop_after_attempt(3)).  fails = number of attempts in which the
\* OpenAI constructor raised; boto = boto3.client() did not raise.
NVP_Init ==
  /\ pc = "init"
  /\ temp_dir' = TRUE
  /\ dir_on_disk' = TRUE
  /\ trace' = Append(trace, "mkdtemp")
  /\ \E fails \in 0..SetupAttempts, boto \in BOOLEAN:
       LET failed == IF env.openai THEN fails ELSE SetupAttempts IN
       IF ~env.core
         THEN /\ exc' = "ValueError"
              /\ pc' = "init_failed"
              /\ UNCHANGED <<r2_enabled, notion_enabled, obs, task>>
         ELSE IF failed = SetupAttempts
           THEN /\ exc' = "RetryError"
                /\ pc' = "init_failed"
                /\ obs' = [obs EXCEPT !.setup_failures = failed]
                /\ task' = NewTask
                /\ UNCHANGED <<r2_enabled, notion_enabled>>
           ELSE /\ exc' = "none"
                /\ pc' = "download"
                /\ obs' = [obs EXCEPT !.setup_failures = failed]
                /\ task' = NewTask
                /\ r2_enabled' = (env.r2 /\ boto)
                /\ notion_enabled' = env.notion
  /\ UNCHANGED <<ai_item_len, recalls, r2_keys, ids, vp, prog, env, thumb_path, result, notion_requests,
                 ai_content, webhooks, exit_code>>

DownloadOutcomes ==
  {"ok_thumb", "ok_nothumb", "ydl_error", "no_file", "os_error", "signal"}

\* variant of DownloadException: without the "if not video_file: raise" check
DownloadException_NoFileCheck(o) ==
  CASE o = "ydl_error" -> "RuntimeError"
    [] o = "os_error" -> "OSError"
    [] o = "signal" -> "SystemExit"
    [] OTHER -> "none"

\* what _download_video raises for each outcome of the download
DownloadException(o) ==
  CASE o = "ydl_error" -> "RuntimeError"
    [] o = "no_file" -> "FileNotFoundError"
    [] o = "os_error" -> "OSError"
    [] o = "signal" -> "SystemExit"
    [] OTHER -> "none"

\* yt-dlp creates the directory of its output template when it is missing
\* (it is missing only in a further call of process(), after _cleanup): it
\* has done so when files were found there, and may have when it failed
DirectoryMade(o, made) ==
  /\ dir_on_disk => ~made
  /\ (~dir_on_disk /\ o \in {"ok_thumb", "ok_nothumb"}) => made

\* step 1 of process(): video_path, thumb_path = self._download_video()
DownloadVideo ==
  /\ pc = "download"
  /\ \E o \in DownloadOutcomes:
       /\ obs' = [obs EXCEPT !.download = o]
       /\ thumb_path' = (o = "ok_thumb")
       /\ exc' = DownloadException(o)
       /\ pc' = AfterStage(DownloadException(o), "upload_video")
       /\ \E made \in BOOLEAN:
            /\ DirectoryMade(o, made)
            /\ dir_on_disk' = (dir_on_disk \/ made)
  /\ trace' = Append(trace, "download")
  /\ UNCHANGED <<ai_item_len, recalls, r2_keys, ids, vp, prog, env, temp_dir, r2_enabled, notion_enabled,
                 task, result, notion_requests, ai_content, webhooks,
                 exit_code>>

UploadOutcomes == {"ok", "rejected", "local", "signal"}

\* the outcomes _upload_to_r2 can have given r2_enabled: without storage no
\* upload is attempted; a signal can arrive in both cases
UploadPossible(o) == o = "signal" \/ (r2_enabled <=> o \in {"ok", "rejected"})

\* _upload_to_r2(local_path, file_type): the URL it returns
UploadToR2(enabled, o, file) ==
  IF ~enabled THEN LocalUrl(file)
  ELSE IF o = "ok" THEN R2Url(file)
  ELSE UploadFailedUrl(file)

UploadTrace(o) ==
  IF o \in {"ok", "rejected"} THEN Append(trace, "upload") ELSE trace

\* the keys after self.r2_client.upload_file(local_path, bucket, r2_key, ...)
UploadKeys(o, file_type) ==
  IF o \in {"ok", "rejected"}
    THEN Append(r2_keys, R2Key(file_type, task.task_id))
    ELSE r2_keys

\* variant of UploadException: without the except clause of _upload_to_r2
UploadException_Propagates(o) ==
  CASE o = "signal" -> "SystemExit"
    [] o = "rejected" -> "ClientError"
    [] OTHER -> "none"

\* what _upload_to_r2 raises: "except Exception" turns a failed upload into
\* the upload_failed:// URL
UploadException(o) == IF o = "signal" THEN "SystemExit" ELSE "none"

\* step 2 of process(), first statement
UploadVideo ==
  /\ pc = "upload_video"
  /\ \E o \in UploadOutcomes:
       /\ UploadPossible(o)
       /\ obs' = [obs EXCEPT !.upload_video = o]
       /\ trace' = UploadTrace(o)
       /\ r2_keys' = UploadKeys(o, "videos")
       /\ IF UploadException(o) # "none"
            THEN /\ exc' = UploadException(o)
                 /\ pc' = AfterStage(UploadException(o), "ai")
                 /\ UNCHANGED task
            ELSE /\ exc' = "none"
                 /\ pc' = IF thumb_path THEN "upload_thumb" ELSE "ai"
                 /\ task' = [task EXCEPT !.processed_video_url =
                                            UploadToR2(r2_enabled, o, "video")]
  /\ UNCHANGED <<ai_item_len, recalls, ids, vp, prog, env, dir_on_disk, temp_dir, r2_enabled, notion_enabled,
                 thumb_path, result, notion_requests, ai_content, webhooks,
                 exit_code>>

\* step 2 of process(), "if thumb_path:"
UploadThumbnail ==
  /\ pc = "upload_thumb"
  /\ \E o \in UploadOutcomes:
       /\ UploadPossible(o)
       /\ obs' = [obs EXCEPT !.upload_thumb = o]
       /\ trace' = UploadTrace(o)
       /\ r2_keys' = UploadKeys(o, "thumbnails")
       /\ IF UploadException(o) # "none"
            THEN /\ exc' = UploadException(o)
                 /\ pc' = AfterStage(UploadException(o), "ai")
                 /\ UNCHANGED task
            ELSE /\ exc' = "none"
                 /\ pc' = "ai"
                 /\ task' = [task EXCEPT !.processed_thumbnail_url =
                                        UploadToR2(r2_enabled, o, "thumbnail")]
  /\ UNCHANGED <<ai_item_len, recalls, ids, vp, prog, env, dir_on_disk, temp_dir, r2_enabled, notion_enabled,
                 thumb_path, result, notion_requests, ai_content, webhooks,
                 exit_code>>

AIOutcomes == {"ok", "call_error", "bad_json", "not_dict", "signal"}

\* what the body of the try block of _generate_ai_content raises
AIException(o) ==
  CASE o = "call_error" -> "APIError"
    [] o = "bad_json" -> "JSONDecodeError"
    [] o = "not_dict" -> "AttributeError"
    [] o = "signal" -> "SystemExit"
    [] OTHER -> "none"

\* variant of AIStageCatches: without the "except Exception" clause
AIStageCatches_JsonOnly(e) == e = "JSONDecodeError"

\* the two except clauses of _generate_ai_content: json.JSONDecodeError, then
\* Exception
AIStageCatches(e) == e = "JSONDecodeError" \/ CaughtByExceptException(e)

\* the error_message the except clause that catches e stores
AIErrorMessage(e) ==
  IF e = "JSONDecodeError" THEN "ai_format_error" ELSE "ai_service_error"

\* sizes of the three fields of a language-model answer
TitleCounts == {0, 1, MaxTitles, MaxTitles + Excess}
SummaryLens == {0, 100, MaxSummary, MaxSummary + Excess}
TagCounts == {0, 1, MaxTags, MaxTags + Excess}
ItemLens == {1, MaxItemLen}

\* ai_data.get(...)[:5], [:500], [:10]
CleanAIData(t, titles, summary, tags) ==
  [t EXCEPT !.ai_title_suggestions = Min(titles, MaxTitles),
            !.ai_content_summary = Min(summary, MaxSummary),
            !.ai_tag_suggestions = Min(tags, MaxTags)]

\* step 3 of process(): self._generate_ai_content()
GenerateAI ==
  /\ pc = "ai"
  /\ \E o \in AIOutcomes:
       LET e == AIException(o) IN
       /\ obs' = [obs EXCEPT !.ai = o, !.llm_calls = @ + 1]
       /\ IF e = "none"
            THEN /\ \E titles \in TitleCounts, summary \in SummaryLens,
                       tags \in TagCounts, len \in ItemLens:
                      /\ task' = CleanAIData(task, titles, summary, tags)
                      /\ ai_item_len' = len
                 /\ exc' = "none"
                 /\ pc' = "notion"
            ELSE IF AIStageCatches(e)
              THEN /\ task' = [task EXCEPT !.error_message = AIErrorMessage(e)]
                   /\ exc' = "none"
                   /\ pc' = "notion"
                   /\ UNCHANGED ai_item_len
              ELSE /\ exc' = e
                   /\ pc' = AfterStage(e, "notion")
                   /\ UNCHANGED <<task, ai_item_len>>
  /\ trace' = Append(trace, "llm_call")
  /\ UNCHANGED <<recalls, r2_keys, ids, vp, prog, env, dir_on_disk, temp_dir, r2_enabled, notion_enabled,
                 thumb_path, result, notion_requests, ai_content, webhooks,
                 exit_code>>

NotionAttempts == 3   \* stop_after_attempt(3) on _update_notion_page

\* outcomes of the PATCH request: the status code of the answer (429: rate
\* limit, 400: validation error), requests raising Timeout, or a signal
\* arriving during the call; "disabled" is the early return without request.
\* A failing outcome is one that persists over every attempt made.
NotionOutcomes == {"disabled", "200", "429", "400", "timeout", "signal"}

MaxRichText == 2000   \* content[:2000] of the three rich-text properties

\* length of "\n".join(f"{i}. {title}" ...): n items of len characters, each
\* after a one-digit number, a dot and a space, with n - 1 newlines between
TitlesText(n, len) == IF n = 0 THEN 0 ELSE n * (len + 3) + (n - 1)

\* length of " ".join(tags)
TagsText(n, len) == IF n = 0 THEN 0 ELSE n * len + (n - 1)

\* variant of RichText: the content is sent as it is
RichText_Untruncated(len) == len

\* length of text[:2000]
RichText(len) == Min(len, MaxRichText)

\* the properties _update_notion_page puts in the PATCH body; of a rich-text
\* property the length of its content, 0 when the property is left out
NotionProperties(t) ==
  [state |-> IF t.status = "completed" THEN "processing_done"
                                       ELSE "processing_failed",
   video |-> IF StartsWithHttp(t.processed_video_url)
               THEN t.processed_video_url ELSE NoUrl,
   thumbnail |-> IF StartsWithHttp(t.processed_thumbnail_url)
                   THEN t.processed_thumbnail_url ELSE NoUrl,
   summary_len |-> IF t.ai_content_summary = NoSummary THEN 0
                   ELSE RichText(t.ai_content_summary),
   titles_len |-> RichText(TitlesText(t.ai_title_suggestions, ai_item_len)),
   tags_len |-> RichText(TagsText(t.ai_tag_suggestions, ai_item_len)),
   task_id |-> t.task_id]

\* what the try block of _update_notion_page raises
NotionException(o) ==
  CASE o = "timeout" -> "Timeout"
    [] o = "signal" -> "SystemExit"
    [] OTHER -> "none"

\* variant of NotionPageCatches: the function has no except clause
NotionPageCatches_Nothing(e) == FALSE

\* "except Exception as e: ... return False" of _update_notion_page
NotionPageCatches(e) == CaughtByExceptException(e)

\* the exception that leaves the body of _update_notion_page
NotionEscapes(o) ==
  IF NotionPageCatches(NotionException(o)) THEN "none" ELSE NotionException(o)

\* @retry(stop=stop_after_attempt(3)): the body is called again only when it
\* raised an Exception, until the third attempt
NotionCalls(o) ==
  IF CaughtByExceptException(NotionEscapes(o)) THEN NotionAttempts ELSE 1

\* what the decorated call raises: RetryError after the last failed attempt;
\* an exception that is not an Exception is re-raised as it is
NotionRaises(o) ==
  IF CaughtByExceptException(NotionEscapes(o)) THEN "RetryError"
  ELSE NotionEscapes(o)

RECURSIVE Repeat(_, _, _)
\* seq followed by n copies of x
Repeat(seq, x, n) == IF n = 0 THEN seq ELSE Repeat(Append(seq, x), x, n - 1)

\* step 4 of process(): self._update_notion_page().  Every Exception of the
\* request is caught inside the function, which then returns False, so the
\* @retry decorator never sees a failure and the request is issued once.
UpdateNotion ==
  /\ pc = "notion"
  /\ \E o \in NotionOutcomes:
       /\ o = "disabled" <=> ~notion_enabled
       /\ obs' = [obs EXCEPT !.notion = o]
       /\ IF o = "disabled"
            THEN UNCHANGED <<notion_requests, trace>>
            ELSE /\ notion_requests' =
                      Repeat(notion_requests, NotionProperties(task),
                             NotionCalls(o))
                 /\ trace' = Repeat(trace, "notion_patch", NotionCalls(o))
       /\ exc' = NotionRaises(o)
       /\ pc' = AfterStage(NotionRaises(o), "decide")
  /\ UNCHANGED <<ai_item_len, recalls, r2_keys, ids, vp, prog, env, dir_on_disk, temp_dir, r2_enabled, notion_enabled,
                 thumb_path, task, result, ai_content, webhooks, exit_code>>

\* "if not self.task.error_message:" at the end of the try block
FinalStatus(error_message) ==
  IF error_message = "None" THEN "completed" ELSE "partial"

DecideStatus ==
  /\ pc = "decide"
  /\ task' = [task EXCEPT !.status = FinalStatus(task.error_message)]
  /\ pc' = "finally"
  /\ UNCHANGED <<ai_item_len, recalls, r2_keys, ids, vp, prog, env, dir_on_disk, temp_dir, exc, r2_enabled,
                 notion_enabled, thumb_path, result, notion_requests,
                 ai_content, webhooks, exit_code, obs, trace>>

\* "except Exception as e:" of process()
HandleException ==
  /\ pc = "except"
  /\ task' = [task EXCEPT !.status = "failed", !.error_message = exc]
  /\ exc' = "none"
  /\ pc' = "finally"
  /\ UNCHANGED <<ai_item_len, recalls, r2_keys, ids, vp, prog, env, dir_on_disk, temp_dir, r2_enabled, notion_enabled,
                 thumb_path, result, notion_requests, ai_content, webhooks,
                 exit_code, obs, trace>>

RmtreeOutcomes == {"ok", "error"}

\* shutil.rmtree(path): "error" is rmtree raising, which both cleanup
\* functions catch and log; a directory that is not there makes it raise
RmtreePossible(o) == dir_on_disk \/ o = "error"

\* variant of AfterCleanup: the cleanup reports success and removes nothing
AfterCleanup_KeepsDirectory(on_disk, o) == on_disk

\* the directory after _cleanup / cleanup
AfterCleanup(on_disk, o) == IF o = "ok" THEN FALSE ELSE on_disk

\* variant of CleanupException: _cleanup without its try/except
CleanupException_Propagates(o) == IF o = "error" THEN "OSError" ELSE "none"

\* what _cleanup raises: "except Exception" catches what rmtree raised
CleanupException(o) == "none"

\* "finally:" of process(): _cleanup(), then "return asdict(self.task)",
\* which discards an exception that is still in flight.  An exception
\* raised in the finally clause itself would go on to the caller.
Finally ==
  /\ pc = "finally"
  /\ \E o \in RmtreeOutcomes:
       /\ RmtreePossible(o)
       /\ obs' = [obs EXCEPT !.rmtree = o, !.swallowed = exc]
       /\ dir_on_disk' = AfterCleanup(dir_on_disk, o)
       /\ exc' = CleanupException(o)
       /\ IF CleanupException(o) = "none"
            THEN result' = task /\ pc' = "returned"
            ELSE result' = NoResult /\ pc' = "raised"
  /\ trace' = Append(trace, "rmtree")
  /\ UNCHANGED <<ai_item_len, recalls, r2_keys, ids, vp, prog, env, temp_dir, r2_enabled,
                 notion_enabled, thumb_path, task, notion_requests,
                 ai_content, webhooks, exit_code>>

\* a caller that holds the processor calls process() again: nothing of the
\* task record is reset, and temp_dir still names the removed directory
ProcessAgain ==
  /\ prog = "notion"
  /\ pc = "returned"
  /\ recalls < MaxRecalls
  /\ recalls' = recalls + 1
  /\ pc' = "download"
  /\ result' = NoResult
  /\ obs' = InitialObs
  /\ trace' = << >>
  /\ notion_requests' = << >>
  /\ r2_keys' = << >>
  /\ thumb_path' = FALSE
  /\ UNCHANGED <<ids, vp, prog, env, dir_on_disk, temp_dir, exc, r2_enabled,
                 notion_enabled, task, ai_content, webhooks, exit_code,
                 ai_item_len>>

----------------------------------------------------------------------------
(* process_task.py *)

\* state of NotionVideoProcessor, which process_task.py never touches
notionVars == <<r2_enabled, notion_enabled, task, result, notion_requests>>

\* VideoProcessor.__init__: _get_required_env raises ValueError for a missing
\* R2 credential, OPENAI_API_KEY, VIDEO_URL or TASK_NAME; the two client
\* constructors can raise.  Nothing catches it: the interpreter exits with 1.
PT_Init ==
  /\ pc = "pt_init"
  /\ \E clients \in BOOLEAN:
       IF env.r2 /\ env.openai /\ env.core /\ clients
         THEN pc' = "pt_mkdtemp" /\ UNCHANGED exit_code
         ELSE Exit(1)
  /\ UNCHANGED <<ai_item_len, recalls, r2_keys, ids, vp, prog, env, dir_on_disk, temp_dir, exc, thumb_path,
                 ai_content, webhooks, obs, trace, notionVars>>

\* len(str(e)) of the OSError of tempfile.mkdtemp, whose text holds the
\* path of the directory: the shortest and the longest of the model
OSErrorLens == {1, MaxErrorLen}

\* step 1 of process(): create_temp_directory()
PT_CreateTemp ==
  /\ pc = "pt_mkdtemp"
  /\ \E made \in BOOLEAN:
       IF made
         THEN /\ temp_dir' = TRUE
              /\ dir_on_disk' = TRUE
              /\ trace' = Append(trace, "mkdtemp")
              /\ pc' = "pt_download"
              /\ UNCHANGED <<exc, obs>>
         ELSE /\ exc' = "OSError"
              /\ \E n \in OSErrorLens: obs' = [obs EXCEPT !.error_len = n]
              /\ pc' = "pt_except"
              /\ UNCHANGED <<temp_dir, dir_on_disk, trace>>
  /\ UNCHANGED <<ai_item_len, recalls, r2_keys, ids, vp, prog, env, thumb_path, ai_content, webhooks, exit_code,
                 notionVars>>

PT_DownloadOutcomes == {"ok_thumb", "ok_nothumb", "failed"}

\* download_video() returns True, or False after catching every exception
download_video(o) == o \in {"ok_thumb", "ok_nothumb"}

\* step 2 of process(): "if not self.download_video(): raise Exception(...)"
PT_Download ==
  /\ pc = "pt_download"
  /\ \E o \in PT_DownloadOutcomes:
       /\ obs' = [obs EXCEPT !.download = o,
                             !.error_len = IF download_video(o)
                                             THEN @ ELSE DownloadFailedLen]
       /\ thumb_path' = (o = "ok_thumb")
       /\ IF download_video(o)
            THEN pc' = "pt_upload" /\ UNCHANGED exc
            ELSE pc' = "pt_except" /\ exc' = "Exception"
  /\ trace' = Append(trace, "download")
  /\ UNCHANGED <<ai_item_len, recalls, r2_keys, ids, vp, prog, env, dir_on_disk, temp_dir, ai_content, webhooks,
                 exit_code, notionVars>>

PT_UploadOutcomes == {"ok", "rejected"}

\* upload_to_r2() returns True, or False after catching every exception
upload_to_r2(o) == o = "ok"

\* step 3 of process(): "if not self.upload_to_r2(): raise Exception(...)"
PT_Upload ==
  /\ pc = "pt_upload"
  /\ \E o \in PT_UploadOutcomes:
       /\ obs' = [obs EXCEPT !.upload_video = o,
                             !.error_len = IF upload_to_r2(o)
                                             THEN @ ELSE UploadFailedLen]
       /\ IF upload_to_r2(o)
            THEN pc' = "pt_ai" /\ UNCHANGED exc
            ELSE pc' = "pt_except" /\ exc' = "Exception"
  /\ trace' = Append(trace, "upload")
  /\ UNCHANGED <<ai_item_len, recalls, r2_keys, ids, vp, prog, env, dir_on_disk, temp_dir, thumb_path, ai_content,
                 webhooks, exit_code, notionVars>>

\* answers of the language model: whether the four required keys are there,
\* the length of each title, for each tag whether it starts with '#', and
\* whether the values of "標題建議" and "SEO關鍵詞" are lists of strings, which
\* str.join needs (a null or a list of numbers passes the validation)
RespTitles ==
  {<< >>, <<NominalTitleLen>>, <<NominalTitleLen, TitleLimit>>,
   <<NominalTitleLen, TitleLimit + Excess>>}
RespTags == {<< >>, <<TRUE>>, <<TRUE, FALSE>>}
Responses ==
  [keys: BOOLEAN, titles: RespTitles, tags: RespTags, joinable: BOOLEAN,
   source: {"model"}]

\* _validate_ai_content(content)
validate_ai_content(c) ==
  /\ c.keys
  /\ \A i \in 1..Len(c.titles): ~(c.titles[i] > TitleLimit)
  /\ \A i \in 1..Len(c.tags): c.tags[i]

\* _use_fallback_content(): the content built from a task name of n characters
use_fallback_content(n) ==
  [keys |-> TRUE,
   titles |-> <<n, n + FallbackAffixLen, n + FallbackAffixLen>>,
   tags |-> <<TRUE, TRUE, TRUE, TRUE, TRUE>>,
   joinable |-> TRUE,
   source |-> "fallback"]

PT_AIOutcomes == {"ok", "call_error", "bad_json"}

\* step 4 of process(): generate_ai_content(), which returns True always
PT_GenerateAI ==
  /\ pc = "pt_ai"
  /\ \E o \in PT_AIOutcomes:
       /\ obs' = [obs EXCEPT !.ai = o, !.llm_calls = @ + 1]
       /\ IF o = "ok"
            THEN \E r \in Responses:
                   ai_content' = IF validate_ai_content(r)
                                   THEN r
                                   ELSE use_fallback_content(env.nameLen)
            ELSE ai_content' = use_fallback_content(env.nameLen)
  /\ trace' = Append(trace, "llm_call")
  /\ pc' = "pt_send"
  /\ UNCHANGED <<ai_item_len, recalls, r2_keys, ids, vp, prog, env, dir_on_disk, temp_dir, exc, thumb_path, webhooks,
                 exit_code, notionVars>>

PostOutcomes == {"2xx", "non2xx", "transport_error"}

\* variant of WebhookSkipped: without the "if self.test_mode: return"
WebhookSkipped_UrlOnly == ~env.webhook

\* the two early returns of send_webhook_result
WebhookSkipped == env.test_mode \/ ~env.webhook

\* assembling the success payload raises TypeError when str.join meets a
\* value that is no list of strings; the error payload always assembles
PayloadRaises(success) == success /\ ~ai_content.joinable

\* the JSON body: the fields both payloads have, and error_message
Payload(success, error_message, error_len) ==
  [status |-> IF success THEN "success" ELSE "error",
   secret |-> "WEBHOOK_SECRET",
   task_id |-> "task_id",
   gsheet_row_index |-> "GSHEET_ROW_INDEX",
   error_message |-> IF success THEN "absent" ELSE error_message,
   error_len |-> IF success THEN 0 ELSE error_len]

\* send_webhook_result(success, error_message): the POSTs issued after it.
\* The payload is assembled inside the try block, so an exception of the
\* assembly is logged and no POST is made.
send_webhook_result(posts, success, error_message, error_len) ==
  IF WebhookSkipped \/ PayloadRaises(success)
    THEN posts
    ELSE Append(posts, Payload(success, error_message, error_len))

\* what became of the call: no POST, or the outcome of the one POST
WebhookOutcome(success, o) ==
  IF WebhookSkipped THEN "skipped"
  ELSE IF PayloadRaises(success) THEN "payload_error"
  ELSE o

WebhookTrace(posts) ==
  IF posts # webhooks THEN Append(trace, "webhook_post") ELSE trace

\* variant of PT_SendResult: cleanup() is called before the result is sent
PT_SendResult_CleanupFirst ==
  /\ pc = "pt_send"
  /\ \E o \in PostOutcomes:
       /\ webhooks' = send_webhook_result(webhooks, TRUE, "None", 0)
       /\ trace' = IF webhooks' # webhooks
                     THEN trace \o <<"rmtree", "webhook_post">>
                     ELSE Append(trace, "rmtree")
       /\ obs' = [obs EXCEPT !.webhook = WebhookOutcome(TRUE, o),
                             !.rmtree = "ok"]
  /\ dir_on_disk' = FALSE
  /\ pc' = "pt_finally"
  /\ UNCHANGED <<ai_item_len, recalls, r2_keys, ids, vp, prog, env, temp_dir, exc,
                 thumb_path, ai_content, exit_code, notionVars>>

\* step 5 of process(): send_webhook_result(success=True); a failed POST is
\* caught and logged
PT_SendResult ==
  /\ pc = "pt_send"
  /\ \E o \in PostOutcomes:
       /\ webhooks' = send_webhook_result(webhooks, TRUE, "None", 0)
       /\ trace' = WebhookTrace(webhooks')
       /\ obs' = [obs EXCEPT !.webhook = WebhookOutcome(TRUE, o)]
  /\ pc' = "pt_finally"
  /\ UNCHANGED <<ai_item_len, recalls, r2_keys, ids, vp, prog, env, dir_on_disk, temp_dir, exc, thumb_path,
                 ai_content, exit_code, notionVars>>

\* "except Exception as e:" of process(): the error webhook with str(e),
\* then sys.exit(1)
PT_Except ==
  /\ pc = "pt_except"
  /\ \E o \in PostOutcomes:
       /\ webhooks' = send_webhook_result(webhooks, FALSE, exc, obs.error_len)
       /\ trace' = WebhookTrace(webhooks')
       /\ obs' = [obs EXCEPT !.webhook = WebhookOutcome(FALSE, o)]
  /\ exc' = "SystemExit"
  /\ pc' = "pt_finally"
  /\ UNCHANGED <<ai_item_len, recalls, r2_keys, ids, vp, prog, env, dir_on_disk, temp_dir, thumb_path, ai_content,
                 exit_code, notionVars>>

\* "finally:" of process(): cleanup(), which calls rmtree only when temp_dir
\* is set and the directory exists; then the pending sys.exit(1) ends the
\* program, or the script runs to its end
PT_Finally ==
  /\ pc = "pt_finally"
  /\ IF temp_dir /\ dir_on_disk
       THEN /\ \E o \in RmtreeOutcomes:
                 /\ obs' = [obs EXCEPT !.rmtree = o]
                 /\ dir_on_disk' = AfterCleanup(dir_on_disk, o)
            /\ trace' = Append(trace, "rmtree")
       ELSE UNCHANGED <<obs, dir_on_disk, trace>>
  /\ Exit(IF exc = "SystemExit" THEN 1 ELSE 0)
  /\ exc' = "none"
  /\ UNCHANGED <<ai_item_len, recalls, r2_keys, ids, vp, prog, env, temp_dir, thumb_path, ai_content, webhooks,
                 notionVars>>

----------------------------------------------------------------------------
\* state of the three pipelines, which the programs below never touch
pipelineVars ==
  <<env, dir_on_disk, temp_dir, exc, r2_enabled, notion_enabled, thumb_path,
    task, result, notion_requests, ai_content, webhooks, exit_code, obs,
    trace, recalls, r2_keys, ai_item_len>>

----------------------------------------------------------------------------
(* src/video_processor.py: two calls of the coroutine process() on one       *)
(* instance; a step runs from one suspension (await) to the next            *)

\* _cleanup(): rmtree of the directory self.temp_dir names now, when it
\* exists; o is the outcome of rmtree
VP_cleanup(v, o) ==
  IF v.temp_dir # NoTask /\ v.dirs[v.temp_dir]
    THEN IF o = "ok"
           THEN [v EXCEPT !.dirs[v.temp_dir] = FALSE,
                          !.files[v.temp_dir] = FALSE]
           ELSE [v EXCEPT !.rmtree_failed = TRUE]
    ELSE v

\* call i ends: the finally clause runs _cleanup(), then the call returns
\* (how = "ok") or its exception goes on to the caller (how = "raised")
VP_End(v, i, how, o) ==
  [VP_cleanup(v, o) EXCEPT !.pc[i] = "done", !.ret[i] = how]

\* _find_downloaded_files(base_name): the directory self.temp_dir names now
\* is searched for f"{base_name}.{ext}"; another call's directory has such
\* a file when the names are the same and that call's download is there
VP_find(v, i) ==
  IF v.temp_dir = i THEN i
  ELSE IF v.same_name /\ v.dirs[v.temp_dir] /\ v.files[v.temp_dir]
    THEN v.temp_dir
  ELSE NoTask

\* process() up to its first suspension: self.task_id and self.temp_dir are
\* assigned, _download builds the output template from self.temp_dir and
\* starts yt-dlp.  mkdtemp can raise, before the try block is entered.
VP_Process ==
  /\ prog = "vproc"
  /\ \E i \in Tasks, made \in BOOLEAN:
       /\ vp.pc[i] = "start"
       /\ vp' = IF made
                  THEN [vp EXCEPT !.task_id = i, !.temp_dir = i,
                                  !.dirs[i] = TRUE, !.pc[i] = "downloading"]
                  ELSE [vp EXCEPT !.task_id = i, !.pc[i] = "done",
                                  !.ret[i] = "raised"]
  /\ UNCHANGED <<prog, pc, ids, pipelineVars>>

\* yt-dlp has ended and _download resumes: a non-zero return code raises;
\* otherwise the files are in the directory of the output template, and
\* _find_downloaded_files raises when it finds no video.  Then, with
\* storage, _upload_to_r2 builds the key from self.task_id and suspends in
\* _upload_file; without storage the call returns.
VP_DownloadDone ==
  /\ prog = "vproc"
  /\ \E i \in Tasks, o \in {"ok", "failed"}, rm \in RmtreeOutcomes:
       /\ vp.pc[i] = "downloading"
       /\ vp' =
            IF o = "failed" THEN VP_End(vp, i, "raised", rm)
            ELSE LET v == [vp EXCEPT !.dirs[i] = TRUE, !.files[i] = TRUE] IN
                 IF VP_find(v, i) = NoTask THEN VP_End(v, i, "raised", rm)
                 ELSE IF v.r2_enabled
                   THEN [v EXCEPT !.found[i] = VP_find(v, i),
                                  !.key[i] = v.task_id,
                                  !.pc[i] = "uploading"]
                   ELSE VP_End([v EXCEPT !.found[i] = VP_find(v, i)],
                               i, "ok", rm)
  /\ UNCHANGED <<prog, pc, ids, pipelineVars>>

\* upload_file has ended in the executor: it fails when the file it was
\* given is no longer there, or the storage rejects it; _upload_to_r2
\* catches that, and the call returns
VP_UploadDone ==
  /\ prog = "vproc"
  /\ \E i \in Tasks, o \in {"ok", "rejected"}, rm \in RmtreeOutcomes:
       /\ vp.pc[i] = "uploading"
       /\ ~(vp.dirs[vp.found[i]] /\ vp.files[vp.found[i]]) => o = "rejected"
       /\ vp' = VP_End([vp EXCEPT !.upload[i] = o], i, "ok", rm)
  /\ UNCHANGED <<prog, pc, ids, pipelineVars>>

----------------------------------------------------------------------------
(* the task-id generators as functions of their inputs *)

\* NotionTask(...) for each of the two sets of inputs
GenerateNotionTaskIds ==
  /\ pc = "ids"
  /\ ids.notion = << >>
  /\ ids' = [ids EXCEPT !.notion =
               <<NotionTaskId(ids.a[1], ids.a[2], ids.a[3]),
                 NotionTaskId(ids.b[1], ids.b[2], ids.b[3])>>]
  /\ UNCHANGED <<prog, pc, vp, pipelineVars>>

\* VideoProcessor._generate_task_id for each of the two sets of inputs
GenerateVideoTaskIds ==
  /\ pc = "ids"
  /\ ids.video = << >>
  /\ ids' = [ids EXCEPT !.video =
               <<generate_task_id(ids.a[1], ids.a[2], ids.a[3]),
                 generate_task_id(ids.b[1], ids.b[2], ids.b[3])>>]
  /\ UNCHANGED <<prog, pc, vp, pipelineVars>>

----------------------------------------------------------------------------
Next ==
  \/ MainCheckDependencies
  \/ MainValidate
  \/ MainImport
  \/ MainConstructFailed
  \/ MainAnalyze
  \/ signal_handler
  \/ NVP_Init
  \/ DownloadVideo
  \/ UploadVideo
  \/ UploadThumbnail
  \/ GenerateAI
  \/ UpdateNotion
  \/ DecideStatus
  \/ HandleException
  \/ Finally
  \/ ProcessAgain
  \/ PT_Init
  \/ PT_CreateTemp
  \/ PT_Download
  \/ PT_Upload
  \/ PT_GenerateAI
  \/ PT_SendResult
  \/ PT_Except
  \/ PT_Finally
  \/ VP_Process
  \/ VP_DownloadDone
  \/ VP_UploadDone
  \/ GenerateNotionTaskIds
  \/ GenerateVideoTaskIds

Spec == Init /\ [][Next]_vars

TypeOK ==
  /\ prog \in Programs
  /\ exit_code \in {NoExit, 0, 1, 2, 3, 130}
  /\ task.status \in {"in_progress", "completed", "partial", "failed"}

----------------------------------------------------------------------------
(* Properties *)

NotionRun == prog \in {"main", "notion"}

\* NotionVideoProcessor.process() has returned
Returned == NotionRun /\ result # NoResult

StageOutcomes == {"ok", "rejected", "local"}

\* the upload stage ran to its end (it was not cut short by a signal)
UploadEnded ==
  \/ /\ NotionRun
     /\ obs.upload_video \in StageOutcomes
     /\ thumb_path => obs.upload_thumb \in StageOutcomes
  \/ /\ prog = "ptask"
     /\ obs.upload_video \in {"ok", "rejected"}

\* the reporting stage was entered
ReportingEntered == obs.notion # "none" \/ obs.webhook # "none"

\* NotionVideoProcessor() raised: __init__ began (it assigns temp_dir first)
\* and process() was never called
ConstructionFailed ==
  /\ NotionRun
  /\ temp_dir
  /\ pc = "init_failed" \/ (pc = "exited" /\ result = NoResult)

\* C1 (as stated): whenever NotionVideoProcessor.process() has returned, by
\* whichever path, the temporary directory no longer exists.
C1_WorkspaceGoneAfterReturn == Returned => ~dir_on_disk

\* C1 (amended): whenever process() has returned, _cleanup has run on the
\* temporary directory, and the directory is gone unless shutil.rmtree itself
\* raised (which _cleanup logs and swallows).
C1_CleanupOnEveryPath ==
  Returned => /\ obs.rmtree # "none"
              /\ dir_on_disk => obs.rmtree = "error"

\* a stage was cut short by the exit signal, process() returned, directory gone
C1_Witness ==
  /\ Returned
  /\ obs.swallowed = "SystemExit"
  /\ obs.rmtree = "ok"
  /\ ~dir_on_disk

\* C2: when the construction of NotionVideoProcessor fails, no stage has been
\* entered and no temporary directory is left behind.
C2_FailedConstructionReleasesWorkspace ==
  ConstructionFailed => (obs.download = "none" /\ ~dir_on_disk)

\* C3: the status process() returns follows the decision rule (stated for runs
\* that no signal cut short): completed exactly when no error_message was
\* recorded; partial exactly when the download produced media and synthesis or
\* publication degraded; failed exactly when the download failed or an
\* exception escaped a stage.
C3_TerminalDecisionRule ==
  (Returned /\ obs.swallowed = "none") =>
    /\ result.status = "completed" <=> result.error_message = "None"
    /\ result.status = "partial" <=>
         /\ obs.download \in {"ok_thumb", "ok_nothumb"}
         /\ \/ obs.ai \in {"call_error", "bad_json", "not_dict"}
            \/ obs.upload_video \in {"rejected", "local"}
            \/ obs.upload_thumb \in {"rejected", "local"}
    /\ result.status = "failed" <=>
         obs.download \in {"ydl_error", "no_file", "os_error"}

\* C4: once the download stage has failed, the upload stage and the AI stage
\* are never executed, and the run ends failed (status failed from
\* NotionVideoProcessor, exit code 1 from process_task).
C4_DownloadFailureEndsRun ==
  obs.download \in {"ydl_error", "no_file", "failed"} =>
    /\ obs.upload_video = "none"
    /\ obs.upload_thumb = "none"
    /\ obs.ai = "none"
    /\ recalls = 0 => task.status \in {"in_progress", "failed"}
    /\ Returned => result.status = "failed"
    /\ (prog = "ptask" /\ pc = "exited") => exit_code = 1

\* the download reported success without a media file; the run ended failed
C4_Witness ==
  /\ Returned
  /\ obs.download = "no_file"
  /\ result.status = "failed"

\* C5: in every controller, once the upload stage has ended, with success or
\* with failure, the AI stage is what comes next.
C5_UploadNeverFailsRun ==
  UploadEnded => (pc \in {"ai", "pt_ai"} \/ obs.ai # "none")

\* C6: when the video could not be published, the media URL of the returned
\* record is the original source URL, and without storage the thumbnail URL
\* is null.
C6_UnpublishedVideoKeepsSourceUrl ==
  (Returned /\ obs.upload_video \in {"local", "rejected"}) =>
    /\ result.processed_video_url = OriginalLink
    /\ ~r2_enabled => result.processed_thumbnail_url = NoUrl

C8_FallbackContentAfterAIFailure ==
  (Returned /\ obs.ai \in {"call_error", "bad_json"}) =>
    /\ result.ai_title_suggestions > 0
    /\ result.ai_content_summary > 0
    /\ result.ai_tag_suggestions > 0

\* C9: in process_task, after generate_ai_content has returned, ai_content
\* passes _validate_ai_content, for every task name.
C9_AIContentAlwaysValid ==
  (prog = "ptask" /\ obs.ai # "none") => validate_ai_content(ai_content)

\* C10: a missing language-model credential alone does not abort the run:
\* with the task variables set and the link well-formed, neither the
\* environment validation nor the construction of the processor ends the run.
C10_NoCredentialNoAbort ==
  [][(/\ ~env.openai
      /\ env.core
      /\ env.linkHttp
      /\ pc \in {"main_validate", "init"})
       => pc' \notin {"exited", "init_failed"}]_vars

----------------------------------------------------------------------------
(* Reporting, webhook and exit codes *)

DownloadFailures == {"ydl_error", "no_file", "os_error", "failed"}

\* process_task.py has ended after process() was entered
PT_Ended == prog = "ptask" /\ pc = "exited" /\ obs.webhook # "none"

\* C11: when the download fails, a run with the tolerant option set ends with
\* a terminal status other than failed (exit code 0 for process_task.py),
\* and a run without the option ends failed (exit code 1)
C11_TolerantDownloadFailure ==
  /\ (Returned /\ obs.download \in DownloadFailures) =>
        IF env.tolerant THEN result.status \in {"completed", "partial"}
        ELSE result.status = "failed"
  /\ (PT_Ended /\ obs.download \in DownloadFailures) =>
        IF env.tolerant THEN exit_code = 0 ELSE exit_code = 1

TerminalStatuses == {"completed", "partial", "failed"}

\* C12: whichever terminal status process() returns, completed, partial or
\* failed, _update_notion_page has been invoked during the run
C12_ReportingInAllTerminalCases ==
  (Returned /\ result.status \in TerminalStatuses) => obs.notion # "none"

\* the label a page update must carry to agree with a terminal status
ReportedAs(status) ==
  IF status = "completed" THEN "processing_done" ELSE "processing_failed"

\* C13: the status sent to the Notion page is the one of the terminal status
\* process() returns (completed is reported as done, not as failed), and the
\* status of a webhook body agrees with the exit code of process_task.py
C13_ReportedStatusIsTerminalStatus ==
  /\ (Returned /\ obs.swallowed = "none") =>
        \A i \in 1..Len(notion_requests):
          notion_requests[i].state = ReportedAs(result.status)
  /\ PT_Ended =>
        \A i \in 1..Len(webhooks):
          webhooks[i].status = "success" <=> exit_code = 0

TransientNotionErrors == {"timeout", "429"}

\* C14: once the page update has ended, a transient error (timeout, rate
\* limit) that persisted has been met with 3 requests in total, and a
\* validation error with exactly one request
C14_NotionRetryPolicy ==
  (NotionRun /\ pc \in {"decide", "except", "finally", "returned", "exited"}) =>
    /\ obs.notion \in TransientNotionErrors =>
          Len(notion_requests) = NotionAttempts
    /\ obs.notion = "400" => Len(notion_requests) = 1

\* process_task.py has ended after process() was entered with a webhook
\* URL configured and test mode off
PT_EndedReporting == PT_Ended /\ env.webhook /\ ~env.test_mode

\* C16: with a webhook URL and test mode off, a run of process() makes
\* exactly one webhook POST
C16_ExactlyOneWebhookPost == PT_EndedReporting => Len(webhooks) = 1

\* C17: a success body carries status "success", the secret and the task id;
\* an error body carries status "error", the secret, the task id, the row
\* reference and an error_message of 1 to 500 characters
C17_WebhookBodies ==
  \A i \in 1..Len(webhooks):
    /\ webhooks[i].secret = "WEBHOOK_SECRET"
    /\ webhooks[i].task_id = "task_id"
    /\ webhooks[i].status \in {"success", "error"}
    /\ webhooks[i].status = "error" =>
          /\ webhooks[i].gsheet_row_index = "GSHEET_ROW_INDEX"
          /\ webhooks[i].error_message # "absent"
          /\ webhooks[i].error_len \in 1..500

NotionFailures == {"429", "400", "timeout"}
PostFailures == {"non2xx", "transport_error"}

\* the exit code of process_task.py that the download and the upload decide
PT_ExitCodeOfStages ==
  IF download_video(obs.download) /\ upload_to_r2(obs.upload_video)
    THEN 0 ELSE 1

\* C15: a page update that is answered with a non-200 status or raises leaves
\* no mark on what process() returns: the status is the one the error_message
\* of the stages decides, never failed, and the error of the update is not
\* recorded; a webhook POST that fails leaves the exit code of
\* process_task.py the one the download and the upload decide
C15_ReportingFailureKeepsOutcome ==
  /\ (Returned /\ obs.notion \in NotionFailures) =>
        /\ result.status = FinalStatus(result.error_message)
        /\ result.error_message \notin {"Timeout", "RetryError"}
        /\ result = task
  /\ (PT_Ended /\ obs.webhook \in PostFailures) =>
        exit_code = PT_ExitCodeOfStages

C15_Witness ==
  /\ Returned
  /\ obs.notion = "timeout"
  /\ Len(notion_requests) = 1
  /\ result.status = "completed"

\* the stages of process_task.py that have run, which test mode has no part in
PT_StagesRan ==
  /\ temp_dir => obs.download # "none" /\ obs.rmtree # "none"
  /\ download_video(obs.download) => obs.upload_video # "none"
  /\ upload_to_r2(obs.upload_video) => obs.ai # "none"
  /\ exit_code = PT_ExitCodeOfStages

\* C18: in test mode process_task.py makes no webhook POST at any time, and
\* when it has ended the download, upload, AI generation and cleanup have run
\* and the exit code is the one they decide, as without test mode
C18_TestModeSuppressesOnlyWebhook ==
  /\ (prog = "ptask" /\ env.test_mode) =>
        /\ webhooks = << >>
        /\ \A i \in 1..Len(trace): trace[i] # "webhook_post"
  /\ PT_Ended => PT_StagesRan

C18_Witness ==
  /\ PT_Ended
  /\ env.test_mode
  /\ env.webhook
  /\ obs.ai = "ok"
  /\ obs.rmtree = "ok"
  /\ obs.webhook = "skipped"
  /\ exit_code = 0

\* main.py has ended
MainEnded == prog = "main" /\ pc = "exited"

\* C19: main.py ends with exit code 0, 1, 2 or 130 only; apart from an
\* interrupt (130), the code is 0 exactly for a completed run, 2 exactly for
\* a partial one, and 1 for a failed one and when no run was started
C19_ExitCodes ==
  MainEnded =>
    /\ exit_code \in {0, 1, 2, 130}
    /\ exit_code = 0 => result.status = "completed"
    /\ exit_code = 2 => result.status = "partial"
    /\ exit_code # 130 =>
          /\ result.status = "completed" => exit_code = 0
          /\ result.status = "partial" => exit_code = 2
          /\ result.status = "failed" => exit_code = 1
          /\ result = NoResult => exit_code = 1

\* C20: when a signal arrived while process() was executing a stage,
\* main.py ends with exit code 130
C20_SignalInStageExits130 ==
  (MainEnded /\ obs.swallowed = "SystemExit") => exit_code = 130

----------------------------------------------------------------------------
(* Task record, identifiers, workspace release *)

\* C21: the status of the task record is changed only from in_progress, and
\* only to one of completed, partial, failed: a status that is terminal is
\* never replaced by a different one, also not by a further call of process()
C21_StatusOnlyMovesForward ==
  [][task'.status # task.status =>
       /\ task.status = "in_progress"
       /\ task'.status \in TerminalStatuses]_vars

\* a stage of process() has begun
StagesBegun == NotionRun /\ (pc = "download" \/ obs.download # "none")

\* C22: the task_id is assigned before the first stage begins and is from
\* then on the id made at construction; every storage key, every Notion
\* request and the returned record carry it
C22_TaskIdAssignedOnce ==
  /\ StagesBegun =>
        task.task_id = NotionTaskId(TaskName, LinkText, ConstructionTime)
  /\ \A i \in 1..Len(r2_keys): r2_keys[i].task_id = task.task_id
  /\ \A i \in 1..Len(notion_requests):
        notion_requests[i].task_id = task.task_id
  /\ Returned => result.task_id = task.task_id

\* both files were uploaded, the page was updated, process() returned
C22_Witness ==
  /\ Returned
  /\ Len(r2_keys) = 2
  /\ Len(notion_requests) = 1
  /\ result.task_id = NotionTaskId(TaskName, LinkText, ConstructionTime)

\* C24: the ids made from two triples (task name, source URL, timestamp) are
\* equal exactly when the triples are, for NotionTask and for
\* VideoProcessor._generate_task_id
C24_TaskIdInjective ==
  /\ ids.notion # << >> =>
        (ids.notion[1] = ids.notion[2] <=> ids.a = ids.b)
  /\ ids.video # << >> =>
        (ids.video[1] = ids.video[2] <=> ids.a = ids.b)

\* both process() calls on the one VideoProcessor have ended
VP_BothEnded == prog = "vproc" /\ \A i \in Tasks: vp.pc[i] = "done"

\* C23: two process() calls that interleave on one VideoProcessor keep to
\* their own workspace: a call finds and uploads the video of its own
\* directory under its own task id, and when both calls have ended (and
\* rmtree never failed) neither directory exists
C23_ConcurrentTasksOwnWorkspace ==
  prog = "vproc" =>
    /\ \A i \in Tasks: vp.found[i] \in {NoTask, i}
    /\ \A i \in Tasks: vp.key[i] \in {NoTask, i}
    /\ (VP_BothEnded /\ ~vp.rmtree_failed) => \A i \in Tasks: ~vp.dirs[i]

\* the workspace release is the last call of the run so far
ReleaseIsLast == trace # << >> /\ trace[Len(trace)] = "rmtree"

\* C25: in a run, nothing follows the workspace release (so the Notion
\* update and the webhook POST come before it), and the release has been
\* made when process() has returned and when process_task.py has ended
\* with a workspace, on the success path and on the failure path
C25_ReleaseIsLastAction ==
  /\ \A i \in 1..Len(trace): trace[i] = "rmtree" => i = Len(trace)
  /\ Returned => ReleaseIsLast
  /\ (PT_Ended /\ temp_dir) => ReleaseIsLast

\* process_task.py failed in the upload, posted the error payload and then
\* released the workspace
C25_Witness ==
  /\ PT_Ended
  /\ exit_code = 1
  /\ obs.webhook = "2xx"
  /\ trace = <<"mkdtemp", "download", "upload", "webhook_post", "rmtree">>

\* C26: in NotionVideoProcessor a failed thumbnail upload leaves
\* processed_video_url what the video upload made it, a failed video upload
\* is followed by the thumbnail upload when there is a thumbnail, and neither
\* sends the run to the except clause or makes it end failed
C26_UploadFailuresPerFile ==
  NotionRun =>
    /\ obs.upload_thumb = "rejected" =>
          task.processed_video_url =
            UploadToR2(r2_enabled, obs.upload_video, "video")
    /\ (obs.upload_video = "rejected" /\ thumb_path) =>
          (pc = "upload_thumb" \/ obs.upload_thumb # "none")
    /\ (obs.upload_video = "rejected" \/ obs.upload_thumb = "rejected") =>
          /\ pc # "except"
          /\ (Returned /\ obs.swallowed = "none") =>
                result.status \in {"completed", "partial"}

\* both uploads were rejected and the run ended completed
C26_Witness ==
  /\ Returned
  /\ obs.upload_video = "rejected"
  /\ obs.upload_thumb = "rejected"
  /\ result.processed_video_url = UploadFailedUrl("video")
  /\ result.status = "completed"

\* C27: the cleanup never raises and changes nothing of the outcome: from
\* the finally clause process() always returns, with the task record as it
\* was, and process_task.py always exits with the code decided before,
\* whether rmtree succeeded, failed, or found the directory already removed
C27_CleanupNeverRaises ==
  [][/\ pc = "finally" =>
          /\ pc' = "returned"
          /\ exc' = "none"
          /\ task' = task
          /\ result' = task
     /\ pc = "pt_finally" =>
          /\ pc' = "exited"
          /\ exit_code' = IF exc = "SystemExit" THEN 1 ELSE 0]_vars

\* a further call of process() has run _cleanup on the directory that the
\* first call had removed, and has returned
C27_Witness ==
  /\ Returned
  /\ recalls = 1
  /\ obs.download = "ydl_error"
  /\ obs.rmtree = "error"
  /\ ~dir_on_disk

C29_ReturnedStatusIsTerminal ==
  Returned =>
    /\ result.status # "in_progress"
    /\ result.status \in TerminalStatuses

\* C30: every URL property of a request to Notion is a web URL: the
\* processed-video and the thumbnail property are left out or hold a value
\* that starts with http, never a local:// or upload_failed:// marker
C30_OnlyWebUrlsSent ==
  \A i \in 1..Len(notion_requests):
    /\ notion_requests[i].video.scheme \in {"none", "http", "https"}
    /\ notion_requests[i].thumbnail.scheme \in {"none", "http", "https"}

\* a request was sent while the record held an upload_failed:// marker for
\* the video and a web URL for the thumbnail: it has the thumbnail only
C30_Witness ==
  /\ NotionRun
  /\ Len(notion_requests) = 1
  /\ task.processed_video_url = UploadFailedUrl("video")
  /\ task.processed_thumbnail_url = R2Url("thumbnail")
  /\ notion_requests[1].video = NoUrl
  /\ notion_requests[1].thumbnail = R2Url("thumbnail")

\* a request was sent while the record held local:// markers
C30_LocalMarkersLeftOut ==
  /\ NotionRun
  /\ Len(notion_requests) = 1
  /\ task.processed_video_url = LocalUrl("video")
  /\ notion_requests[1].video = NoUrl
====
